---- MODULE Spec2Model ----
(***************************************************************************)
(* A model of cuda_setup.py: the discovery of the CUDA toolchain           *)
(* (locate_cuda), the version -> flag tables (get_cuda_arch,               *)
(* get_cuda_sm_list, get_cuda_compute), the build command CudaBuildExt     *)
(* and the per-file dispatch of _UnixCCompiler._compile.                   *)
(*                                                                         *)
(* Representation.  A string is a sequence of atoms: an atom is one        *)
(* character ("1", ".", "-", ",") or a chunk of characters that holds no   *)
(* separator and not the text "52" ("cuda", "-arch=sm_").  A path is a     *)
(* sequence                                                                *)
(* of components, each a string; an absolute path starts with the          *)
(* component ROOT.  os.environ is a function whose DOMAIN is the set of    *)
(* the variables that are present.                                         *)
(***************************************************************************)
EXTENDS Integers, Sequences, FiniteSets, TLC

VARIABLES
  platform,      \* sys.platform
  environ,       \* os.environ
  fs,            \* the set of the (real) paths that exist on the filesystem
  link,          \* the symbolic links: a function from a path to its target
  cwd,           \* the current directory
  sources,       \* the sources of the extension, in the order they compile
  compile_args,  \* [cc_args, extra_postargs, pp_opts] the build step passes
  host_so,       \* the compiler_so customize_compiler gives the host compiler
  pc,            \* the position of the program
  home, nvcc,    \* locals of locate_cuda
  cuda_ver,      \* local of locate_cuda: 10 * major + minor
  arch, sm_list, compute,   \* what the three resolver functions returned
  CUDA,          \* the module's global: <<>> is None, <<config>> a dict
  error,         \* the exception that ended the program, or "none"
  warnings,      \* the logging.warning calls, in order
  BUILDEXT,      \* the module's global
  wrapped,       \* whether run() has wrapped ccompiler.new_compiler
  self_compiler, \* CudaBuildExt.compiler: "default", "nvidia" or the object
  compiler_so,   \* the compiler object's executable setting
  next_src,      \* index in sources of the next file to compile
  frame,         \* the running _compile call: <<>> or <<its locals>>
  spawned        \* the calls of UnixCCompiler._compile so far, in order

vars == <<platform, environ, fs, link, cwd, sources, compile_args, host_so,
          pc, home, nvcc, cuda_ver, arch, sm_list, compute, CUDA, error,
          warnings, BUILDEXT, wrapped, self_compiler, compiler_so, next_src,
          frame, spawned>>

----------------------------------------------------------------------------
(* Strings *)

Digits == <<"0", "1", "2", "3", "4", "5", "6", "7", "8", "9">>

IsDigit(a) == \E i \in 1..10 : Digits[i] = a

DigitValue(a) == (CHOOSE i \in 1..10 : Digits[i] = a) - 1

\* int(s) succeeds: the alphabet of the model holds no sign, space or "_"
IsInt(s) == Len(s) > 0 /\ \A i \in 1..Len(s) : IsDigit(s[i])

RECURSIVE IntOf(_)
IntOf(s) ==
  IF Len(s) = 0 THEN 0
  ELSE 10 * IntOf(SubSeq(s, 1, Len(s) - 1)) + DigitValue(s[Len(s)])

\* str.split(sep): every separator cuts, empty pieces are kept
RECURSIVE Split(_, _)
Split(s, sep) ==
  IF \A i \in 1..Len(s) : s[i] # sep THEN <<s>>
  ELSE LET i == CHOOSE k \in 1..Len(s) :
                  s[k] = sep /\ \A j \in 1..(k - 1) : s[j] # sep
       IN  <<SubSeq(s, 1, i - 1)>> \o Split(SubSeq(s, i + 1, Len(s)), sep)

\* "52" in flag
Contains52(flag) ==
  \E i \in 1..(Len(flag) - 1) : flag[i] = "5" /\ flag[i + 1] = "2"

\* [x for x in seq if x not in S]
RECURSIVE Without(_, _)
Without(seq, S) ==
  IF seq = <<>> THEN <<>>
  ELSE (IF Head(seq) \in S THEN <<>> ELSE <<Head(seq)>>)
         \o Without(Tail(seq), S)

Range(seq) == {seq[i] : i \in 1..Len(seq)}

----------------------------------------------------------------------------
(* The version -> flag tables *)

HALF_PRECISION == FALSE

BaseSmList ==
  << <<"3", "0">>, <<"5", "2">>, <<"6", "0">>, <<"6", "1">>,
     <<"7", "0">>, <<"7", "5">>, <<"8", "0">>, <<"8", "6">> >>

\* a faulty variant: version 110 loses its own case
filter_list_no110(ver) ==
  IF ver >= 110 THEN {<<"3", "0">>}
  ELSE {<<"8", "0">>, <<"8", "6">>}
         \cup (IF ver < 100 THEN {<<"7", "5">>} ELSE {})
         \cup (IF ver < 90 THEN {<<"7", "0">>} ELSE {})
         \cup (IF ver < 80 THEN {<<"6", "0">>, <<"6", "1">>} ELSE {})

\* a faulty variant: the three tests below 110 chained with elif
filter_list_elif(ver) ==
  IF ver >= 110
  THEN {<<"3", "0">>} \cup (IF ver = 110 THEN {<<"8", "6">>} ELSE {})
  ELSE {<<"8", "0">>, <<"8", "6">>}
         \cup (IF ver < 100 THEN {<<"7", "5">>}
               ELSE IF ver < 90 THEN {<<"7", "0">>}
               ELSE IF ver < 80 THEN {<<"6", "0">>, <<"6", "1">>}
               ELSE {})

filter_list(ver) ==
  IF ver >= 110
  THEN {<<"3", "0">>} \cup (IF ver = 110 THEN {<<"8", "6">>} ELSE {})
  ELSE {<<"8", "0">>, <<"8", "6">>}
         \cup (IF ver < 100 THEN {<<"7", "5">>} ELSE {})
         \cup (IF ver < 90 THEN {<<"7", "0">>} ELSE {})
         \cup (IF ver < 80 THEN {<<"6", "0">>, <<"6", "1">>} ELSE {})

\* a faulty variant: the override is filtered like the base list
get_cuda_sm_list_filtered(ver, env) ==
  Without(IF "CUDA_SM_LIST" \in DOMAIN env
          THEN Split(env["CUDA_SM_LIST"], ",")
          ELSE BaseSmList,
          filter_list(ver))

get_cuda_sm_list(ver, env) ==
  IF "CUDA_SM_LIST" \in DOMAIN env
  THEN Split(env["CUDA_SM_LIST"], ",")
  ELSE Without(BaseSmList, filter_list(ver))

get_cuda_compute(ver, env) ==
  IF "CUDA_COMPUTE" \in DOMAIN env THEN env["CUDA_COMPUTE"]
  ELSE IF 70 <= ver /\ ver < 80 THEN <<"5", "2">>
  ELSE IF 80 <= ver /\ ver < 90 THEN <<"6", "1">>
  ELSE IF 90 <= ver /\ ver < 100 THEN <<"7", "0">>
  ELSE IF 100 <= ver /\ ver < 110 THEN <<"7", "5">>
  ELSE IF ver = 110 THEN <<"8", "0">>
  ELSE IF 111 <= ver /\ ver < 115 THEN <<"8", "6">>
  ELSE IF 115 <= ver /\ ver < 120 THEN <<"8", "9">>
  ELSE IF 120 <= ver /\ ver <= 128 THEN <<"9", "0">>
  ELSE <<"9", "0">>

\* a faulty variant: version 110 falls in the range below it
get_cuda_arch_le110(ver, env) ==
  IF "CUDA_ARCH" \in DOMAIN env THEN env["CUDA_ARCH"]
  ELSE IF 70 <= ver /\ ver < 92 THEN <<"3", "0">>
  ELSE IF 92 <= ver /\ ver <= 110 THEN <<"5", "0">>
  ELSE IF 111 <= ver /\ ver < 120 THEN <<"8", "0">>
  ELSE <<"9", "0">>

get_cuda_arch(ver, env) ==
  IF "CUDA_ARCH" \in DOMAIN env THEN env["CUDA_ARCH"]
  ELSE IF 70 <= ver /\ ver < 92 THEN <<"3", "0">>
  ELSE IF 92 <= ver /\ ver < 110 THEN <<"5", "0">>
  ELSE IF ver = 110 THEN <<"5", "2">>
  ELSE IF 111 <= ver /\ ver < 120 THEN <<"8", "0">>
  ELSE IF 120 <= ver /\ ver <= 128 THEN <<"9", "0">>
  ELSE <<"9", "0">>

----------------------------------------------------------------------------
(* Paths and the filesystem *)

ROOT == <<"/">>

IsAbs(p) == Len(p) > 0 /\ p[1] = ROOT

\* os.path.join(a, b) for a relative b
join(a, b) == a \o b

\* os.path.abspath(p) of a normalised path
abspath(p) == IF IsAbs(p) THEN p ELSE cwd \o p

\* os.path.dirname(p) and os.path.basename(p) of an absolute path
dirname(p) == IF Len(p) <= 1 THEN p ELSE SubSeq(p, 1, Len(p) - 1)

basename(p) == IF Len(p) <= 1 THEN <<>> ELSE p[Len(p)]

IsPrefix(a, p) == Len(a) <= Len(p) /\ SubSeq(p, 1, Len(a)) = a

\* os.path.realpath(p): the targets of the links are real paths
realpath(p) ==
  LET q == abspath(p)
  IN  IF \E l \in DOMAIN link : IsPrefix(l, q)
      THEN LET l == CHOOSE k \in DOMAIN link : IsPrefix(k, q)
           IN  link[l] \o SubSeq(q, Len(l) + 1, Len(q))
      ELSE q

\* os.path.exists(p): follows the links
exists(p) == realpath(p) \in fs

\* find_in_path(name, path): <<>> is None, <<p>> the path found
RECURSIVE find_in_path(_, _)
find_in_path(name, path) ==
  IF path = <<>> THEN <<>>
  ELSE LET binpath == join(Head(path), <<name>>)
       IN  IF exists(binpath) THEN <<abspath(binpath)>>
           ELSE find_in_path(name, Tail(path))

----------------------------------------------------------------------------
(* locate_cuda *)

NVCC == <<"nvcc">>
NVCC_EXE == <<"nvcc", ".", "exe">>
BIN == <<"bin">>
INCLUDE == <<"include">>
LIB64 == <<"lib64">>
LIB == <<"lib">>
X64 == <<"x64">>

\* sys.platform.startswith("win"), over the platforms of the model
StartsWithWin(plat) == plat = "win32"

nvcc_bin == IF StartsWithWin(platform) THEN NVCC_EXE ELSE NVCC

\* a faulty variant: CUDA_HOME is asked first
HomeVarsHomeFirst == <<"CUDA_HOME", "CUDAHOME", "CUDA_PATH">>

\* line 119
HomeVars == <<"CUDA_PATH", "CUDAHOME", "CUDA_HOME">>

\* the first of HomeVars that is in os.environ: 0 when none is
FirstHomeVar ==
  IF \E i \in 1..3 : HomeVars[i] \in DOMAIN environ
  THEN CHOOSE i \in 1..3 :
         /\ HomeVars[i] \in DOMAIN environ
         /\ \A j \in 1..(i - 1) : HomeVars[j] \notin DOMAIN environ
  ELSE 0

Crash(exc) ==
  /\ pc' = "crashed"
  /\ error' = exc

\* lines 113-134: the home directory and the nvcc binary
Discover ==
  /\ pc = "locate"
  /\ IF FirstHomeVar # 0
     THEN /\ home' = environ[HomeVars[FirstHomeVar]]
          /\ nvcc' = join(environ[HomeVars[FirstHomeVar]], <<BIN, nvcc_bin>>)
          /\ pc' = "parse"
          /\ UNCHANGED <<warnings, error>>
     ELSE IF "PATH" \notin DOMAIN environ
     THEN /\ Crash("KeyError")
          /\ UNCHANGED <<home, nvcc, warnings>>
     ELSE LET found == find_in_path(nvcc_bin, environ["PATH"])
          IN  IF found = <<>>
              THEN /\ warnings' = Append(warnings, <<"nvcc not in PATH">>)
                   /\ pc' = "located"
                   /\ UNCHANGED <<home, nvcc, error>>
              ELSE /\ nvcc' = found[1]
                   /\ home' = dirname(dirname(found[1]))
                   /\ pc' = "parse"
                   /\ UNCHANGED <<warnings, error>>
  /\ UNCHANGED <<platform, environ, fs, link, cwd, sources, compile_args,
                 host_so, cuda_ver, arch, sm_list, compute, CUDA, BUILDEXT,
                 wrapped, self_compiler, compiler_so, next_src, frame,
                 spawned>>

\* lines 139-142: the version strings in the name of the real home
VersionStrings(h) ==
  LET name == basename(realpath(h))
      dash == Split(name, "-")
  IN  IF Len(dash) >= 2 THEN Split(dash[2], ".") ELSE Split(name, ".")

\* line 143: "ok", or the exception int() or the indexing raises
ParseOutcome(h) ==
  LET v == VersionStrings(h)
  IN  IF ~IsInt(v[1]) THEN "ValueError"
      ELSE IF Len(v) < 2 THEN "IndexError"
      ELSE IF ~IsInt(v[2]) THEN "ValueError"
      ELSE "ok"

\* line 144
ParsedVersion(h) ==
  LET v == VersionStrings(h) IN 10 * IntOf(v[1]) + IntOf(v[2])

\* lines 139-145: the version, and the floor
ParseVersion ==
  /\ pc = "parse"
  /\ IF ParseOutcome(home) # "ok"
     THEN /\ Crash(ParseOutcome(home))
          /\ UNCHANGED cuda_ver
     ELSE /\ cuda_ver' = ParsedVersion(home)
          /\ IF ParsedVersion(home) >= 70
             THEN pc' = "assemble" /\ UNCHANGED error
             ELSE Crash("AssertionError: too low cuda ver")
  /\ UNCHANGED <<platform, environ, fs, link, cwd, sources, compile_args,
                 host_so, home, nvcc, arch, sm_list, compute, CUDA, warnings,
                 BUILDEXT, wrapped, self_compiler, compiler_so, next_src,
                 frame, spawned>>

RECURSIVE Gencodes(_)
Gencodes(sms) ==
  IF sms = <<>> THEN <<>>
  ELSE << <<"-gencode=arch=compute_">> \o Head(sms)
            \o <<",code=sm_">> \o Head(sms) >> \o Gencodes(Tail(sms))

\* lines 150-167: the arguments of nvcc
PostArgs(a, sms, c, plat) ==
  LET base == << <<"-arch=sm_">> \o a >> \o Gencodes(sms)
                \o << <<"-gencode=arch=compute_">> \o c
                        \o <<",code=compute_">> \o c,
                      <<"--ptxas-options=-v">>, <<"-O2">> >>
      kept == IF HALF_PRECISION
              THEN Without(base, {f \in Range(base) : Contains52(f)})
              ELSE base
  IN  IF plat = "win32"
      THEN kept \o << <<"-Xcompiler">>, <<"/MD">>, <<"-std=c++14">>,
                      <<"-Xcompiler">>, <<"/openmp">> >>
                \o (IF HALF_PRECISION
                    THEN << <<"-Xcompiler">>, <<"/D HALF_PRECISION">> >>
                    ELSE <<>>)
      ELSE kept \o << <<"-c">>, <<"--compiler-options">>, <<"'-fPIC'">>,
                      <<"--compiler-options">>, <<"'-std=c++14'">> >>
                \o (IF HALF_PRECISION
                    THEN << <<"--compiler-options">>,
                            <<"'-D HALF_PRECISION'">> >>
                    ELSE <<>>)

\* lines 135-138 and 158-159: the dict, in the order of its keys
ConfigKeys == <<"home", "nvcc", "include", "lib64">>

cudaconfig(h, n, plat) ==
  [home |-> h, nvcc |-> n, include |-> join(h, <<INCLUDE>>),
   lib64 |-> IF plat = "win32" THEN join(h, <<LIB, X64>>)
             ELSE join(h, <<LIB64>>)]

\* a faulty variant: the nvcc binary is not looked for
FirstMissingButNvcc(cfg) ==
  IF \E i \in {1, 3, 4} : ~exists(cfg[ConfigKeys[i]])
  THEN CHOOSE i \in {1, 3, 4} :
         /\ ~exists(cfg[ConfigKeys[i]])
         /\ \A j \in {1, 3, 4} : j < i => exists(cfg[ConfigKeys[j]])
  ELSE 0

\* lines 168-171: the first key whose path does not exist: 0 when all do
FirstMissing(cfg) ==
  IF \E i \in 1..4 : ~exists(cfg[ConfigKeys[i]])
  THEN CHOOSE i \in 1..4 :
         /\ ~exists(cfg[ConfigKeys[i]])
         /\ \A j \in 1..(i - 1) : exists(cfg[ConfigKeys[j]])
  ELSE 0

\* lines 147-174: the flags, the dict and its validation
Assemble ==
  /\ pc = "assemble"
  /\ arch' = get_cuda_arch(cuda_ver, environ)
  /\ sm_list' = get_cuda_sm_list(cuda_ver, environ)
  /\ compute' = get_cuda_compute(cuda_ver, environ)
  /\ LET cfg == cudaconfig(home, nvcc, platform)
     IN  IF FirstMissing(cfg) # 0
         THEN /\ warnings' = Append(warnings,
                               <<"path missing", ConfigKeys[FirstMissing(cfg)]>>)
              /\ CUDA' = <<>>
         ELSE /\ CUDA' = << [home |-> cfg.home, nvcc |-> cfg.nvcc,
                             include |-> cfg.include, lib64 |-> cfg.lib64,
                             post_args |-> PostArgs(arch', sm_list', compute',
                                                    platform)] >>
              /\ UNCHANGED warnings
  /\ pc' = "located"
  /\ UNCHANGED <<platform, environ, fs, link, cwd, sources, compile_args,
                 host_so, home, nvcc, cuda_ver, error, BUILDEXT, wrapped,
                 self_compiler, compiler_so, next_src, frame, spawned>>

\* lines 228-230: the module's globals
ModuleGlobals ==
  /\ pc = "located"
  /\ IF CUDA = <<>>
     THEN Crash("AssertionError: CUDA is None") /\ UNCHANGED BUILDEXT
     ELSE /\ BUILDEXT' = "CudaBuildExt"
          /\ pc' = "ready"
          /\ UNCHANGED error
  /\ UNCHANGED <<platform, environ, fs, link, cwd, sources, compile_args,
                 host_so, home, nvcc, cuda_ver, arch, sm_list, compute, CUDA,
                 warnings, wrapped, self_compiler, compiler_so, next_src,
                 frame, spawned>>

----------------------------------------------------------------------------
(* CudaBuildExt and _UnixCCompiler *)

\* the compilers distutils knows by name (ccompiler.compiler_class)
KnownCompilers == {"unix", "msvc", "cygwin", "mingw32", "bcpp"}

\* ccompiler.new_compiler as distutils defines it: the class of the
\* compiler, or the exception it raises for a name it does not know
func_new_compiler(name, plat) ==
  IF name = "default"
  THEN (IF plat = "win32" THEN "MSVCCompiler" ELSE "UnixCCompiler")
  ELSE IF name \in KnownCompilers THEN name
  ELSE "DistutilsPlatformError"

\* lines 209-218: the wrapper run() installs
wrap_new_compiler(name, plat) ==
  IF func_new_compiler(name, plat) # "DistutilsPlatformError"
  THEN func_new_compiler(name, plat)
  ELSE IF plat # "win32" THEN "_UnixCCompiler"
  ELSE "NameError"          \* _MSVCCompiler is defined nowhere

\* ccompiler.new_compiler, as run() left it
new_compiler(name, plat, is_wrapped) ==
  IF is_wrapped THEN wrap_new_compiler(name, plat)
  ELSE func_new_compiler(name, plat)

Exceptions == {"NameError", "DistutilsPlatformError"}

\* lines 206-223: run(), up to the call of setuptools' run()
Run ==
  /\ pc = "ready"
  /\ IF CUDA # <<>>
     THEN wrapped' = TRUE /\ self_compiler' = "nvidia"
     ELSE UNCHANGED <<wrapped, self_compiler>>
  /\ pc' = "select"
  /\ UNCHANGED <<platform, environ, fs, link, cwd, sources, compile_args,
                 host_so, home, nvcc, cuda_ver, arch, sm_list, compute, CUDA,
                 error, warnings, BUILDEXT, compiler_so, next_src, frame,
                 spawned>>

\* line 225: setuptools' run() asks ccompiler.new_compiler for the compiler
\* and customize_compiler sets its executables
SelectCompiler ==
  /\ pc = "select"
  /\ LET cls == new_compiler(self_compiler, platform, wrapped)
     IN  IF cls \in Exceptions
         THEN /\ Crash(cls)
              /\ UNCHANGED <<self_compiler, compiler_so>>
         ELSE /\ self_compiler' = cls
              /\ compiler_so' = host_so
              /\ pc' = "build"
              /\ UNCHANGED error
  /\ UNCHANGED <<platform, environ, fs, link, cwd, sources, compile_args,
                 host_so, home, nvcc, cuda_ver, arch, sm_list, compute, CUDA,
                 warnings, BUILDEXT, wrapped, next_src, frame, spawned>>

LastIndex(s, a) ==
  IF \E i \in 1..Len(s) : s[i] = a
  THEN CHOOSE i \in 1..Len(s) :
         s[i] = a /\ \A j \in (i + 1)..Len(s) : s[j] # a
  ELSE 0

\* os.path.splitext(src)[1]
splitext(src) ==
  LET sep == LastIndex(src, "/")
      dot == LastIndex(src, ".")
  IN  IF dot > sep /\ \E k \in (sep + 1)..(dot - 1) : src[k] # "."
      THEN SubSeq(src, dot, Len(src))
      ELSE <<>>

CU == <<".", "cu">>

\* lines 180-181: the extensions the compiler takes
src_extensions ==
  {<<".", "c">>, <<".", "C">>, <<".", "cc">>, <<".", "cxx">>,
   <<".", "cpp">>, <<".", "m">>, CU}

\* CCompiler.set_executable of a string without white space
set_executable(value) == <<value>>

\* a faulty variant: ".cu" anywhere in the name
IsCudaSourceAnywhere(src) ==
  \E i \in 1..(Len(src) - 1) : SubSeq(src, i, i + 1) = CU

\* line 185: whether _compile takes the file as a CUDA C source
IsCudaSource(src) == splitext(src) = CU

\* lines 183-198: _compile, up to the call of UnixCCompiler._compile
CompileEnter ==
  /\ pc = "build"
  /\ self_compiler = "_UnixCCompiler"
  /\ next_src <= Len(sources)
  /\ LET src == sources[next_src]
     IN  IF ~IsCudaSource(src)
         THEN /\ frame' = << [src |-> src, cu |-> FALSE,
                              saved_compiler_so |-> <<>>, ok |-> TRUE,
                              cc_args |-> compile_args.cc_args,
                              postargs |-> compile_args.extra_postargs,
                              pp_opts |-> compile_args.pp_opts] >>
              /\ UNCHANGED compiler_so
         ELSE /\ frame' = << [src |-> src, cu |-> TRUE,
                              saved_compiler_so |-> compiler_so, ok |-> TRUE,
                              cc_args |-> compile_args.cc_args,
                              postargs |-> CUDA[1].post_args,
                              pp_opts |-> compile_args.pp_opts] >>
              /\ compiler_so' = set_executable(CUDA[1].nvcc)
  /\ pc' = "super"
  /\ UNCHANGED <<platform, environ, fs, link, cwd, sources, compile_args,
                 host_so, home, nvcc, cuda_ver, arch, sm_list, compute, CUDA,
                 error, warnings, BUILDEXT, wrapped, self_compiler, next_src,
                 spawned>>

\* _compile returns (ok) and the build goes on to the next source, or it
\* raises CompileError and the build ends
Return(ok) ==
  IF ok
  THEN pc' = "build" /\ next_src' = next_src + 1 /\ UNCHANGED error
  ELSE Crash("CompileError") /\ UNCHANGED next_src

\* lines 186-187 and 197-198: UnixCCompiler._compile spawns compiler_so with
\* the arguments it is given, and returns or raises CompileError
SuperCompile ==
  /\ pc = "super"
  /\ spawned' = Append(spawned,
                  [compiler_so |-> compiler_so, src |-> frame[1].src,
                   cc_args |-> frame[1].cc_args,
                   postargs |-> frame[1].postargs,
                   pp_opts |-> frame[1].pp_opts])
  /\ \E ok \in BOOLEAN :
       IF frame[1].cu
       THEN /\ frame' = << [frame[1] EXCEPT !.ok = ok] >>
            /\ pc' = "finally"
            /\ UNCHANGED <<next_src, error>>
       ELSE /\ frame' = <<>>
            /\ Return(ok)
  /\ UNCHANGED <<platform, environ, fs, link, cwd, sources, compile_args,
                 host_so, home, nvcc, cuda_ver, arch, sm_list, compute, CUDA,
                 warnings, BUILDEXT, wrapped, self_compiler, compiler_so>>

\* a faulty variant: nothing is restored
NotRestored(fr) == compiler_so

\* lines 199-200: the finally clause
Restored(fr) == fr.saved_compiler_so

Finally ==
  /\ pc = "finally"
  /\ compiler_so' = Restored(frame[1])
  /\ frame' = <<>>
  /\ Return(frame[1].ok)
  /\ UNCHANGED <<platform, environ, fs, link, cwd, sources, compile_args,
                 host_so, home, nvcc, cuda_ver, arch, sm_list, compute, CUDA,
                 warnings, BUILDEXT, wrapped, self_compiler, spawned>>

\* every source of the extension is compiled
Finish ==
  /\ pc = "build"
  /\ next_src > Len(sources)
  /\ pc' = "done"
  /\ UNCHANGED <<platform, environ, fs, link, cwd, sources, compile_args,
                 host_so, home, nvcc, cuda_ver, arch, sm_list, compute, CUDA,
                 error, warnings, BUILDEXT, wrapped, self_compiler,
                 compiler_so, next_src, frame, spawned>>

----------------------------------------------------------------------------
(* The inputs: the platform, the environment, the filesystem, the build *)

MaxPath == 2       \* the longest PATH, in directories
MaxSources == 2    \* the most sources of the extension
MaxOverride == 3   \* the longest CUDA_SM_LIST, in atoms
MaxVer == 135      \* the highest version the resolver is asked about

SeqsUpTo(S, n) == UNION {[1..k -> S] : k \in 0..n}

PartialFns(D, V) == UNION {[dom -> V] : dom \in SUBSET D}

Platforms == {"linux", "win32"}

Prefixes == {<<>>, <<"cuda", "-">>}
Majors == {<<"6">>, <<"7">>, <<"9">>, <<"1", "0">>, <<"1", "1">>, <<"1", "2">>}
Minors == {<<>>, <<".", "0">>, <<".", "2">>, <<".", "5">>}

\* the names of the installation directory: "cuda-11.0", "10.2", "cuda-7",
\* "cuda", ...
HomeNames ==
  {p \o M \o m : p \in Prefixes, M \in Majors, m \in Minors} \cup {<<"cuda">>}

Name110 == <<"cuda", "-", "1", "1", ".", "0">>

InstallDir(name) == <<ROOT, <<"opt">>, name>>
LinkDir == <<ROOT, <<"usr">>, <<"local">>, <<"cuda">>>>
OtherDir == <<ROOT, <<"usr">>, <<"local">>, <<"cuda", "-", "9", ".", "2">>>>
UsrBin == <<ROOT, <<"usr">>, <<"bin">>>>

Leaves == {<<BIN, NVCC>>, <<BIN, NVCC_EXE>>, <<INCLUDE>>, <<LIB64>>,
           <<LIB, X64>>}

\* the paths, with the directories above them
Closure(P) == {SubSeq(q, 1, k) : <<q, k>> \in
                 {<<q, k>> \in P \X (1..6) : k <= Len(q)}}

Tree(h, leaves) == Closure({h} \cup {h \o l : l \in leaves} \cup {UsrBin})

NoLink == [q \in {} |-> q]
LinkTo(h) == [q \in {LinkDir} |-> h]

Environ(homes, path, over) ==
  [v \in DOMAIN homes \cup DOMAIN over
           \cup (IF path = <<>> THEN {} ELSE {"PATH"}) |->
     IF v \in DOMAIN homes THEN homes[v]
     ELSE IF v = "PATH" THEN path[1]
     ELSE over[v]]

NoOverride == [v \in {} |-> <<>>]
AllOverride ==
  [v \in {"CUDA_ARCH", "CUDA_SM_LIST", "CUDA_COMPUTE"} |->
     IF v = "CUDA_ARCH" THEN <<"3", "5">>
     ELSE IF v = "CUDA_SM_LIST" THEN <<"5", "2", ",", "7", "0">>
     ELSE <<"6", "2">>]

FileNames ==
  {<<"k", ".", "cu">>, <<"m", ".", "cpp">>, <<"k", ".", "cu", ".", "cpp">>,
   <<"d", ".", "cu", "/", "m", ".", "c">>, <<"d", "/", "k", ".", "cu">>,
   <<"m", ".", "c", ".", "cu">>}

Args1 == [cc_args |-> << <<"-I", ".">> >>, extra_postargs |-> << <<"-O3">> >>,
          pp_opts |-> << <<"-DNDEBUG">> >>]
Args2 == [cc_args |-> <<>>, extra_postargs |-> <<>>, pp_opts |-> <<>>]

Gcc == << <<<<"gcc">>>>, <<<<"-pthread">>>>, <<<<"-fPIC">>>> >>
Clang == << <<<<"clang">>>> >>

Sources2 == << <<"k", ".", "cu">>, <<"m", ".", "cpp">> >>

\* the program is about to run: cuda_setup is imported, then the build runs
Start(plat, env, files, l, name, srcs, args, hso) ==
  /\ platform = plat
  /\ environ = env
  /\ fs = files
  /\ link = l
  /\ cwd = InstallDir(name)
  /\ sources = srcs
  /\ compile_args = args
  /\ host_so = hso
  /\ pc = "locate"
  /\ home = <<>>
  /\ nvcc = <<>>
  /\ cuda_ver = 0
  /\ arch = <<>>
  /\ sm_list = <<>>
  /\ compute = <<>>
  /\ CUDA = <<>>
  /\ error = "none"
  /\ warnings = <<>>
  /\ BUILDEXT = "unset"
  /\ wrapped = FALSE
  /\ self_compiler = "default"
  /\ compiler_so = <<>>
  /\ next_src = 1
  /\ frame = <<>>
  /\ spawned = <<>>

\* one installation, any part of it missing, found through CUDA_HOME
InitValidate ==
  \E plat \in Platforms, leaves \in SUBSET Leaves, there \in BOOLEAN,
     l \in {NoLink, LinkTo(InstallDir(Name110))},
     h \in {InstallDir(Name110), LinkDir} :
    Start(plat, Environ([v \in {"CUDA_HOME"} |-> h], <<<<UsrBin>>>>, NoOverride),
          IF there THEN Tree(InstallDir(Name110), leaves) ELSE Closure({UsrBin}),
          l, Name110, Sources2, Args1, Gcc)

\* two installations, any of the three variables set, any PATH (PATH is
\* set, as a shell sets it)
InitDiscover ==
  \E plat \in Platforms,
     homes \in PartialFns({"CUDA_PATH", "CUDAHOME", "CUDA_HOME"},
                          {InstallDir(Name110), OtherDir}),
     path \in {<<q>> : q \in SeqsUpTo({InstallDir(Name110) \o <<BIN>>,
                                       OtherDir \o <<BIN>>, UsrBin, <<BIN>>},
                                      MaxPath)},
     leaves \in {Leaves, {<<INCLUDE>>, <<LIB64>>, <<LIB, X64>>}, {}},
     other \in BOOLEAN :
    Start(plat, Environ(homes, path, NoOverride),
          Tree(InstallDir(Name110), leaves)
            \cup (IF other THEN Tree(OtherDir, Leaves) ELSE {}),
          NoLink, Name110, Sources2, Args1, Gcc)

\* a complete installation under any name
InitParse ==
  \E plat \in Platforms, name \in HomeNames, via \in BOOLEAN :
    Start(plat,
          Environ([v \in {"CUDA_HOME"} |->
                     IF via THEN LinkDir ELSE InstallDir(name)],
                  <<<<UsrBin>>>>, NoOverride),
          Tree(InstallDir(name), Leaves),
          IF via THEN LinkTo(InstallDir(name)) ELSE NoLink,
          name, Sources2, Args1, Gcc)

\* a complete installation, any extension
InitBuild ==
  \E plat \in Platforms, over \in {NoOverride, AllOverride},
     srcs \in SeqsUpTo(FileNames, MaxSources), args \in {Args1, Args2},
     hso \in {Gcc, Clang} :
    Start(plat,
          Environ([v \in {"CUDA_PATH"} |-> InstallDir(Name110)], <<<<UsrBin>>>>,
                  over),
          Tree(InstallDir(Name110), Leaves), NoLink, Name110, srcs, args, hso)

Init == InitValidate \/ InitDiscover \/ InitParse \/ InitBuild

Next ==
  \/ Discover
  \/ ParseVersion
  \/ Assemble
  \/ ModuleGlobals
  \/ Run
  \/ SelectCompiler
  \/ CompileEnter
  \/ SuperCompile
  \/ Finally
  \/ Finish

Spec == Init /\ [][Next]_vars

----------------------------------------------------------------------------
(* The resolver alone: the three functions at any version, any override *)

OverrideAtoms == {"7", "0", ","}

ArchOverrides == {<<"3", "5">>, <<"9", "0">>}
ComputeOverrides == {<<"6", "2">>}

\* get_cuda_arch, get_cuda_sm_list and get_cuda_compute are called
ResolveAll ==
  /\ pc = "resolve"
  /\ arch' = get_cuda_arch(cuda_ver, environ)
  /\ sm_list' = get_cuda_sm_list(cuda_ver, environ)
  /\ compute' = get_cuda_compute(cuda_ver, environ)
  /\ pc' = "resolved"
  /\ UNCHANGED <<platform, environ, fs, link, cwd, sources, compile_args,
                 host_so, home, nvcc, cuda_ver, CUDA, error, warnings,
                 BUILDEXT, wrapped, self_compiler, compiler_so, next_src,
                 frame, spawned>>

InitResolve ==
  /\ cuda_ver \in 0..MaxVer
  /\ \E a \in PartialFns({"CUDA_ARCH"}, ArchOverrides),
        c \in PartialFns({"CUDA_COMPUTE"}, ComputeOverrides),
        l \in PartialFns({"CUDA_SM_LIST"},
                         SeqsUpTo(OverrideAtoms, MaxOverride)) :
       environ = [v \in DOMAIN a \cup DOMAIN c \cup DOMAIN l |->
                    IF v \in DOMAIN a THEN a[v]
                    ELSE IF v \in DOMAIN c THEN c[v] ELSE l[v]]
  /\ platform = "linux"
  /\ fs = {}
  /\ link = NoLink
  /\ cwd = <<ROOT>>
  /\ sources = <<>>
  /\ compile_args = Args2
  /\ host_so = Gcc
  /\ pc = "resolve"
  /\ home = <<>>
  /\ nvcc = <<>>
  /\ arch = <<>>
  /\ sm_list = <<>>
  /\ compute = <<>>
  /\ CUDA = <<>>
  /\ error = "none"
  /\ warnings = <<>>
  /\ BUILDEXT = "unset"
  /\ wrapped = FALSE
  /\ self_compiler = "default"
  /\ compiler_so = <<>>
  /\ next_src = 1
  /\ frame = <<>>
  /\ spawned = <<>>

NextResolve == ResolveAll

SpecResolve == InitResolve /\ [][NextResolve]_vars

----------------------------------------------------------------------------
(* The claims about the resolver, under SpecResolve *)

OverrideVars == {"CUDA_ARCH", "CUDA_SM_LIST", "CUDA_COMPUTE"}

Resolved == pc = "resolved"

NoOverrideSet == DOMAIN environ \cap OverrideVars = {}

S(a, b) == <<a, b>>

\* C5: with no override set, get_cuda_arch and get_cuda_compute give the
\* tabulated flag in every range of versions, "90" outside the ranges, and
\* "30" and "52" at version 75
C5_Tables ==
  (Resolved /\ NoOverrideSet) =>
    LET v == cuda_ver IN
      /\ (70 <= v /\ v < 92) => arch = S("3", "0")
      /\ (92 <= v /\ v < 110) => arch = S("5", "0")
      /\ v = 110 => arch = S("5", "2")
      /\ (111 <= v /\ v < 120) => arch = S("8", "0")
      /\ (120 <= v /\ v <= 128) => arch = S("9", "0")
      /\ (v < 70 \/ v > 128) => arch = S("9", "0")
      /\ (70 <= v /\ v < 80) => compute = S("5", "2")
      /\ (80 <= v /\ v < 90) => compute = S("6", "1")
      /\ (90 <= v /\ v < 100) => compute = S("7", "0")
      /\ (100 <= v /\ v < 110) => compute = S("7", "5")
      /\ v = 110 => compute = S("8", "0")
      /\ (111 <= v /\ v < 115) => compute = S("8", "6")
      /\ (115 <= v /\ v < 120) => compute = S("8", "9")
      /\ (120 <= v /\ v <= 128) => compute = S("9", "0")
      /\ (v < 70 \/ v > 128) => compute = S("9", "0")
      /\ v = 75 => (arch = S("3", "0") /\ compute = S("5", "2"))

C5_Witness ==
  /\ Resolved /\ NoOverrideSet /\ cuda_ver = 110
  /\ arch = S("5", "2") /\ compute = S("8", "0")

\* whether the claim's exclusion set holds sm at version v
Excluded(sm, v) ==
  IF v >= 110
  THEN sm = S("3", "0") \/ (v = 110 /\ sm = S("8", "6"))
  ELSE \/ sm \in {S("8", "0"), S("8", "6")}
       \/ (v < 100 /\ sm = S("7", "5"))
       \/ (v < 90 /\ sm = S("7", "0"))
       \/ (v < 80 /\ sm \in {S("6", "0"), S("6", "1")})

IndexInBase(sm) == CHOOSE i \in 1..Len(BaseSmList) : BaseSmList[i] = sm

\* C6: with no sm-list override, get_cuda_sm_list is the base list without
\* the exclusion set of the version, in the order of the base list; at
\* version 110 it is 52, 60, 61, 70, 75, 80
C6_SmList ==
  (Resolved /\ "CUDA_SM_LIST" \notin DOMAIN environ) =>
    /\ \A sm \in Range(BaseSmList) :
         sm \in Range(sm_list) <=> ~Excluded(sm, cuda_ver)
    /\ Range(sm_list) \subseteq Range(BaseSmList)
    /\ \A i, j \in 1..Len(sm_list) :
         i < j => IndexInBase(sm_list[i]) < IndexInBase(sm_list[j])
    /\ cuda_ver = 110 =>
         sm_list = <<S("5", "2"), S("6", "0"), S("6", "1"), S("7", "0"),
                     S("7", "5"), S("8", "0")>>

C6_Witness ==
  /\ Resolved /\ "CUDA_SM_LIST" \notin DOMAIN environ /\ cuda_ver = 110
  /\ Len(sm_list) = 6

\* C7 as claimed: with no sm-list override, get_cuda_sm_list(75) is
\* 30, 52, 60, 61, 70
C7_Original ==
  (Resolved /\ "CUDA_SM_LIST" \notin DOMAIN environ /\ cuda_ver = 75) =>
    sm_list = <<S("3", "0"), S("5", "2"), S("6", "0"), S("6", "1"),
                S("7", "0")>>

\* C7 as amended: with no sm-list override, get_cuda_sm_list(75) is the base
\* list minus 80, 86, 75, 70, 60 and 61, that is 30, 52
C7_Amended ==
  (Resolved /\ "CUDA_SM_LIST" \notin DOMAIN environ /\ cuda_ver = 75) =>
    sm_list = <<S("3", "0"), S("5", "2")>>

C7_Witness ==
  /\ Resolved /\ "CUDA_SM_LIST" \notin DOMAIN environ /\ cuda_ver = 75
  /\ Len(sm_list) = 2

RECURSIVE JoinCommas(_)
JoinCommas(list) ==
  IF Len(list) = 1 THEN list[1]
  ELSE list[1] \o <<",">> \o JoinCommas(Tail(list))

\* C8: with exactly one override variable set, at any version, that field is
\* the value of the variable (the sm list: its pieces between the commas,
\* none filtered) and the other two fields are what the version gives with
\* no override
C8_OneOverride ==
  (Resolved /\ Cardinality(DOMAIN environ \cap OverrideVars) = 1) =>
    /\ "CUDA_ARCH" \in DOMAIN environ =>
         /\ arch = environ["CUDA_ARCH"]
         /\ sm_list = get_cuda_sm_list(cuda_ver, NoOverride)
         /\ compute = get_cuda_compute(cuda_ver, NoOverride)
    /\ "CUDA_COMPUTE" \in DOMAIN environ =>
         /\ compute = environ["CUDA_COMPUTE"]
         /\ sm_list = get_cuda_sm_list(cuda_ver, NoOverride)
         /\ arch = get_cuda_arch(cuda_ver, NoOverride)
    /\ "CUDA_SM_LIST" \in DOMAIN environ =>
         /\ Len(sm_list) >= 1
         /\ JoinCommas(sm_list) = environ["CUDA_SM_LIST"]
         /\ \A i \in 1..Len(sm_list) : "," \notin Range(sm_list[i])
         /\ arch = get_cuda_arch(cuda_ver, NoOverride)
         /\ compute = get_cuda_compute(cuda_ver, NoOverride)

C8_Witness ==
  /\ Resolved /\ DOMAIN environ = {"CUDA_SM_LIST"} /\ cuda_ver = 75
  /\ environ["CUDA_SM_LIST"] = <<"7", "0", ",">>
  /\ sm_list = <<S("7", "0"), <<>>>>
  /\ arch = S("3", "0")

----------------------------------------------------------------------------
(* The claims about the program, under Spec *)

\* no call of _compile is running
BetweenCalls ==
  pc = "build" \/ pc = "done" \/ (pc = "crashed" /\ error = "CompileError")

\* C1: whenever a call of _compile has returned or raised, whatever the file
\* and whatever the outcome, compiler_so is what it was before the call: the
\* host compiler's setting, from which every file of the build starts
C1_Restored == BetweenCalls => compiler_so = host_so

C1_Witness ==
  /\ pc = "crashed" /\ error = "CompileError"
  /\ Len(spawned) = 2
  /\ spawned[1].compiler_so = host_so
  /\ spawned[2].compiler_so # host_so
  /\ compiler_so = host_so

EndsWithCu(src) ==
  /\ Len(src) >= 3
  /\ src[Len(src) - 1] = "." /\ src[Len(src)] = "cu"
  /\ src[Len(src) - 2] \notin {".", "/"}

\* C2: a source whose extension is .cu is compiled by CUDA['nvcc'] with
\* CUDA['post_args'] as post-arguments; any other source is compiled by the
\* host compiler's setting with the arguments of the caller, as received
C2_Dispatch ==
  \A i \in 1..Len(spawned) :
    LET call == spawned[i] IN
      /\ call.cc_args = compile_args.cc_args
      /\ call.pp_opts = compile_args.pp_opts
      /\ IF EndsWithCu(call.src)
         THEN /\ call.compiler_so = <<CUDA[1].nvcc>>
              /\ call.postargs = CUDA[1].post_args
         ELSE /\ call.compiler_so = host_so
              /\ call.postargs = compile_args.extra_postargs

C2_Witness ==
  /\ Len(spawned) = 2
  /\ spawned[1].src = <<"k", ".", "cu", ".", "cpp">>
  /\ spawned[1].compiler_so = host_so
  /\ spawned[2].src = <<"d", "/", "k", ".", "cu">>
  /\ spawned[2].compiler_so = <<InstallDir(Name110) \o <<BIN, NVCC>>>>
  /\ spawned[2].postargs # compile_args.extra_postargs

\* locate_cuda has parsed a version that is 70 or more, and has ended
Validated == cuda_ver >= 70 /\ pc \notin {"locate", "parse", "assemble"}

LibDir ==
  IF platform = "win32" THEN join(home, <<LIB, X64>>)
  ELSE join(home, <<LIB64>>)

\* C3 as claimed: with a version of 70 or more, locate_cuda returns None if
\* and only if home, home/include or the library directory does not exist
C3_Original ==
  Validated =>
    (CUDA = <<>> <=> (~exists(home) \/ ~exists(join(home, <<INCLUDE>>))
                        \/ ~exists(LibDir)))

\* C3 as amended: with a version of 70 or more, locate_cuda returns None if
\* and only if home, the nvcc binary, home/include or the library directory
\* does not exist; otherwise it returns the whole configuration, with the
\* post-arguments
C3_Amended ==
  Validated =>
    /\ CUDA = <<>> <=> (~exists(home) \/ ~exists(nvcc)
                          \/ ~exists(join(home, <<INCLUDE>>))
                          \/ ~exists(LibDir))
    /\ CUDA # <<>> =>
         /\ DOMAIN CUDA[1] = {"home", "nvcc", "include", "lib64", "post_args"}
         /\ CUDA[1].home = home
         /\ CUDA[1].nvcc = nvcc
         /\ CUDA[1].include = join(home, <<INCLUDE>>)
         /\ CUDA[1].lib64 = LibDir
         /\ Len(CUDA[1].post_args) = Len(sm_list) + 9
         /\ CUDA[1].post_args[1] = <<"-arch=sm_">> \o arch
         /\ \A i \in 1..Len(sm_list) :
              CUDA[1].post_args[i + 1] =
                <<"-gencode=arch=compute_">> \o sm_list[i]
                  \o <<",code=sm_">> \o sm_list[i]
         /\ CUDA[1].post_args[Len(sm_list) + 2] =
              <<"-gencode=arch=compute_">> \o compute
                \o <<",code=compute_">> \o compute
    /\ CUDA = <<>> => warnings # <<>>

C3_Witness ==
  /\ Validated
  /\ CUDA = <<>>
  /\ exists(home) /\ exists(join(home, <<INCLUDE>>)) /\ exists(LibDir)
  /\ ~exists(nvcc)
  /\ warnings = << <<"path missing", "nvcc">> >>

\* C4 as claimed: with a valid configuration the selection of the compiler
\* yields the toolchain-aware compiler of the platform family, _MSVCCompiler
\* on Windows and _UnixCCompiler elsewhere; with none, nothing is installed
C4_Selection ==
  /\ (wrapped /\ pc \notin {"ready", "select"}) =>
       self_compiler = (IF platform = "win32" THEN "_MSVCCompiler"
                        ELSE "_UnixCCompiler")
  /\ CUDA = <<>> => ~wrapped

\* locate_cuda has left the discovery of the home directory
Discovered == pc \notin {"locate", "resolve", "resolved"}

NoHomeVar ==
  DOMAIN environ \cap {"CUDA_PATH", "CUDAHOME", "CUDA_HOME"} = {}

HasBinary(dir) ==
  exists(dir \o <<IF platform = "win32" THEN NVCC_EXE ELSE NVCC>>)

C10_Outcomes ==
  /\ (pc = "crashed" /\ error \notin {"AssertionError: CUDA is None",
                                     "NameError", "CompileError"})
       => (error = "AssertionError: too low cuda ver" /\ cuda_ver < 70)
  /\ (pc = "located" /\ CUDA = <<>>) => warnings # <<>>

====
